---- MODULE Spec2Model ----
(***************************************************************************)
(* GRC Advisor: the assessment profile, the six-dimension maturity scorer, *)
(* the gap rules and the two variants of the risk-pool builder, driven by  *)
(* the Assessment form (update / toggle) and generateReport.               *)
(*                                                                         *)
(* Conventions.                                                            *)
(*  - A profile is a record over every field name any engine reads.  A     *)
(*    field that is absent from the JavaScript object (reads `undefined`)  *)
(*    holds the marker of its type: UndefStr for strings, UndefNum for     *)
(*    numbers, UndefList for arrays.                                       *)
(*  - Arrays that the code only tests with includes()/length are sets.     *)
(*  - Weights are kept in thousandths (0.166 -> 166), so the weighted sum  *)
(*    is an exact integer number of thousandths of a point.                *)
(***************************************************************************)
EXTENDS Integers, Sequences, FiniteSets, TLC

\* ---------------------------------------------------------------- bounds
\* How many form changes (update / toggle) precede "Generate Report".
MaxUpdates == 1

\* ------------------------------------------------------- absent markers
UndefStr == "undefined"
UndefNum == 0 - 1
UndefList == {"undefined"}

\* ------------------------------------------------ scoringFramework.js
\* Variant of the table in which the saas technical weight was raised to
\* 0.25 without lowering another.
INDUSTRY_WEIGHTS_Unbalanced ==
  [ fintech    |-> [governance |-> 150, risk |-> 150, compliance |-> 250,
                    technical |-> 150, application |-> 150, operational |-> 150],
    healthcare |-> [governance |-> 100, risk |-> 150, compliance |-> 300,
                    technical |-> 150, application |-> 150, operational |-> 150],
    saas       |-> [governance |-> 100, risk |-> 150, compliance |-> 150,
                    technical |-> 250, application |-> 250, operational |-> 150],
    default    |-> [governance |-> 166, risk |-> 166, compliance |-> 166,
                    technical |-> 166, application |-> 166, operational |-> 166] ]

\* INDUSTRY_WEIGHTS[key].dimensions[dim].weight, in thousandths.
INDUSTRY_WEIGHTS ==
  [ fintech    |-> [governance |-> 150, risk |-> 150, compliance |-> 250,
                    technical |-> 150, application |-> 150, operational |-> 150],
    healthcare |-> [governance |-> 100, risk |-> 150, compliance |-> 300,
                    technical |-> 150, application |-> 150, operational |-> 150],
    saas       |-> [governance |-> 100, risk |-> 150, compliance |-> 150,
                    technical |-> 200, application |-> 250, operational |-> 150],
    default    |-> [governance |-> 166, risk |-> 166, compliance |-> 166,
                    technical |-> 166, application |-> 166, operational |-> 166] ]

\* INDUSTRY_WEIGHTS[key].penalties and .bonuses (lines 17-24, 55-58), in
\* points: entries of the table that no function reads.
INDUSTRY_PENALTIES ==
  [ fintech    |-> {<< "no_mfa", 25 >>, << "no_encryption", 25 >>,
                    << "no_incident_response", 20 >>},
    healthcare |-> {},
    saas       |-> {},
    default    |-> {<< "no_mfa", 20 >>, << "no_backup", 20 >>} ]

INDUSTRY_BONUSES ==
  [ fintech |-> {<< "cert_exists", 10 >>}, healthcare |-> {}, saas |-> {},
    default |-> {} ]

\* Property names every object literal inherits from Object.prototype: the
\* lookup INDUSTRY_WEIGHTS[name] yields a truthy value for them, and that
\* value has no `dimensions`.
ObjectPrototypeKeys ==
  {"constructor", "toString", "valueOf", "hasOwnProperty", "__proto__"}

Dimensions ==
  {"governance", "risk", "compliance", "technical", "application", "operational"}

\* Variant of clamp that forgets the ceiling: Math.max(0, val).
clampNoCeiling(val) == IF val < 0 THEN 0 ELSE val

clamp(val) == IF val < 0 THEN 0 ELSE IF val > 100 THEN 100 ELSE val

\* Math.round on a value given in thousandths: floor(x + 0.5).
MathRound1000(x) == (x + 500) \div 1000

\* JavaScript truthiness of a number field (undefined and 0 are falsy).
TruthyNum(n) == n # UndefNum /\ n # 0

\* JavaScript truthiness of a string field (undefined and '' are falsy).
TruthyStr(s) == s # UndefStr /\ s # ""

calculateGovernanceScore(profile) ==
  LET s0 == 50
      s1 == IF profile.policiesDocumented = "complete" THEN s0 + 20
            ELSE IF profile.policiesDocumented = "partial" THEN s0 + 10
            ELSE s0 - 15
      s2 == IF profile.cisoPresent = "yes" THEN s1 + 15 ELSE s1
      s3 == IF TruthyNum(profile.securityTeamSize) /\ profile.securityTeamSize > 0
            THEN s2 + 10 ELSE s2
      s4 == IF TruthyStr(profile.managementReview) /\ profile.managementReview # "never"
            THEN s3 + 5 ELSE s3
  IN clamp(s4)

calculateRiskScore(profile) ==
  LET s0 == 50
      s1 == IF profile.riskAssessmentFreq = "annual" \/ profile.riskAssessmentFreq = "quarterly"
            THEN s0 + 15 ELSE s0 - 10
      s2 == IF profile.cyberInsurance = "yes" THEN s1 + 10 ELSE s1
      s3 == IF profile.bcpDocumented = "yes" THEN s2 + 15 ELSE s2 - 10
      s4 == IF profile.backupFrequency = "daily" \/ profile.backupFrequency = "real_time"
            THEN s3 + 10
            ELSE IF profile.backupFrequency = "none" THEN s3 - 20 ELSE s3
  IN clamp(s4)

\* Variant of the Compliance scorer that takes 10 points off when there is
\* no privacy program.
calculateComplianceScoreDeducting(profile) ==
  LET s0 == 50
      certs == IF profile.complianceFrameworks = UndefList THEN {}
               ELSE profile.complianceFrameworks
      s1 == IF Cardinality(certs) > 0 THEN s0 + 20 ELSE s0
      s2 == IF "iso27001" \in certs \/ "soc2" \in certs THEN s1 + 10 ELSE s1
      s3 == IF profile.privacyProgram = "yes" THEN s2 + 10 ELSE s2 - 10
      s4 == IF TruthyStr(profile.lastAuditDate) /\ profile.lastAuditDate # "never"
            THEN s3 + 10 ELSE s3
  IN clamp(s4)

calculateComplianceScore(profile) ==
  LET s0 == 50
      certs == IF profile.complianceFrameworks = UndefList THEN {}
               ELSE profile.complianceFrameworks
      s1 == IF Cardinality(certs) > 0 THEN s0 + 20 ELSE s0
      s2 == IF "iso27001" \in certs \/ "soc2" \in certs THEN s1 + 10 ELSE s1
      s3 == IF profile.privacyProgram = "yes" THEN s2 + 10 ELSE s2
      s4 == IF TruthyStr(profile.lastAuditDate) /\ profile.lastAuditDate # "never"
            THEN s3 + 10 ELSE s3
  IN clamp(s4)

calculateTechnicalScore(profile) ==
  LET s0 == 50
      s1 == IF profile.firewallEnabled = "yes" THEN s0 + 10 ELSE s0
      s2 == IF profile.networkSegmentation = "yes" THEN s1 + 10 ELSE s1
      s3 == IF profile.antivirus = "yes" \/ profile.edr = "yes" THEN s2 + 10 ELSE s2
      s4 == IF profile.vulnerabilityScanning = "regular" THEN s3 + 15
            ELSE IF profile.vulnerabilityScanning = "never" THEN s3 - 15 ELSE s3
      s5 == IF profile.patchingAutomated = "yes" THEN s4 + 5 ELSE s4
  IN clamp(s5)

calculateApplicationScore(profile) ==
  LET s0 == 50
      s1 == IF profile.mfa = "mandatory" THEN s0 + 25
            ELSE IF profile.mfa = "optional" THEN s0 - 10
            ELSE s0 - 25
      s2 == IF profile.sso = "yes" THEN s1 + 5 ELSE s1
      s3 == IF profile.encryption = "yes" THEN s2 + 15 ELSE s2
      s4 == IF profile.codeReview = "yes" THEN s3 + 10 ELSE s3
  IN clamp(s4)

\* Variant of the Operational scorer whose vendor program is worth 15.
calculateOperationalScoreFullMarks(profile) ==
  LET s0 == 50
      s1 == IF profile.incidentResponsePlan = "yes" THEN s0 + 20 ELSE s0 - 15
      s2 == IF profile.securityTraining = "regular" THEN s1 + 15 ELSE s1 - 10
      s3 == IF profile.vendorRiskProgram = "yes" THEN s2 + 15 ELSE s2
  IN clamp(s3)

calculateOperationalScore(profile) ==
  LET s0 == 50
      s1 == IF profile.incidentResponsePlan = "yes" THEN s0 + 20 ELSE s0 - 15
      s2 == IF profile.securityTraining = "regular" THEN s1 + 15 ELSE s1 - 10
      s3 == IF profile.vendorRiskProgram = "yes" THEN s2 + 10 ELSE s2
  IN clamp(s3)

\* Line 213: INDUSTRY_WEIGHTS[profile.industry] ? profile.industry : 'default'.
\* The lookup is truthy for the table's own keys and for inherited names.
industryKey(profile) ==
  IF profile.industry \in (DOMAIN INDUSTRY_WEIGHTS) \cup ObjectPrototypeKeys
  THEN profile.industry ELSE "default"

\* Lines 214-215: config.dimensions; undefined when config is an inherited
\* member of Object.prototype.
HasDimensions(key) == key \in DOMAIN INDUSTRY_WEIGHTS

\* Lines 226-233: dims.x?.weight || 0.166 (a weight of 0 also falls back).
WeightOf(dims, d) == IF dims[d] # 0 THEN dims[d] ELSE 166

\* Variant of GlobalPenalty that takes the amounts of the table's penalties
\* entries (no_mfa -25, no_backup -20).
GlobalPenaltyFromTable(profile) ==
  (IF profile.mfa = "none" THEN 25000 ELSE 0)
  + (IF profile.backupFrequency = "none" THEN 20000 ELSE 0)

\* Lines 236-237, in thousandths of a point.
GlobalPenalty(profile) ==
  (IF profile.mfa = "none" THEN 5000 ELSE 0)
  + (IF profile.backupFrequency = "none" THEN 5000 ELSE 0)

\* Variant of the weighted sum that also applies the table's own no_mfa
\* and no_backup penalties of the industry.
WeightedOverallWithTablePenalties(profile, dims) ==
  calculateGovernanceScore(profile) * WeightOf(dims, "governance")
  + calculateRiskScore(profile) * WeightOf(dims, "risk")
  + calculateComplianceScore(profile) * WeightOf(dims, "compliance")
  + calculateTechnicalScore(profile) * WeightOf(dims, "technical")
  + calculateApplicationScore(profile) * WeightOf(dims, "application")
  + calculateOperationalScore(profile) * WeightOf(dims, "operational")
  - GlobalPenalty(profile)
  - (IF profile.mfa = "none"
        /\ \E e \in INDUSTRY_PENALTIES[industryKey(profile)] : e[1] = "no_mfa"
     THEN 1000 * (CHOOSE e \in INDUSTRY_PENALTIES[industryKey(profile)] :
                    e[1] = "no_mfa")[2]
     ELSE 0)
  - (IF profile.backupFrequency = "none"
        /\ \E e \in INDUSTRY_PENALTIES[industryKey(profile)] : e[1] = "no_backup"
     THEN 1000 * (CHOOSE e \in INDUSTRY_PENALTIES[industryKey(profile)] :
                    e[1] = "no_backup")[2]
     ELSE 0)

\* Lines 226-237: the weighted sum less the global penalties, thousandths.
WeightedOverall1000(profile, dims) ==
  calculateGovernanceScore(profile) * WeightOf(dims, "governance")
  + calculateRiskScore(profile) * WeightOf(dims, "risk")
  + calculateComplianceScore(profile) * WeightOf(dims, "compliance")
  + calculateTechnicalScore(profile) * WeightOf(dims, "technical")
  + calculateApplicationScore(profile) * WeightOf(dims, "application")
  + calculateOperationalScore(profile) * WeightOf(dims, "operational")
  - GlobalPenalty(profile)

\* clamp on thousandths (0 .. 100000).
clamp1000(x) == IF x < 0 THEN 0 ELSE IF x > 100000 THEN 100000 ELSE x

\* The whole function.  status "raised" is the TypeError of line 227
\* (reading `governance` of undefined); weights records the table used.
calculateMaturityScore(profile) ==
  LET key == industryKey(profile)
  IN IF ~HasDimensions(key)
     THEN [status |-> "raised", key |-> key]
     ELSE LET dims == INDUSTRY_WEIGHTS[key]
          IN [status      |-> "returned",
              key         |-> key,
              weights     |-> [d \in Dimensions |-> WeightOf(dims, d)],
              overall     |-> MathRound1000(clamp1000(WeightedOverall1000(profile, dims))),
              governance  |-> MathRound1000(1000 * calculateGovernanceScore(profile)),
              risk        |-> MathRound1000(1000 * calculateRiskScore(profile)),
              compliance  |-> MathRound1000(1000 * calculateComplianceScore(profile)),
              technical   |-> MathRound1000(1000 * calculateTechnicalScore(profile)),
              application |-> MathRound1000(1000 * calculateApplicationScore(profile)),
              operational |-> MathRound1000(1000 * calculateOperationalScore(profile))]

\* Variant of the MFA gap guard that fires unless MFA is mandatory.
MfaGapGuardNotMandatory(profile) == profile.mfa # "mandatory"

\* Guard of the MFA gap rule (line 289).
MfaGapGuard(profile) == profile.mfa = "none"

\* identifyGaps(profile, scores): one rule after the other, each pushing at
\* most one gap.
GapIf(cond, category, severity, description) ==
  IF cond THEN << [category |-> category, severity |-> severity,
                   description |-> description] >>
  ELSE << >>

\* Variant of identifyGaps that reports the Critical gaps first.
identifyGapsCriticalFirst(profile, scores) ==
  GapIf(profile.backupFrequency = "none", "Risk", "Critical",
        "No backup strategy found-data loss is imminent in an attack.")
  \o GapIf(MfaGapGuard(profile), "Application", "Critical",
        "Multi-Factor Authentication (MFA) is not enabled.")
  \o GapIf(scores.governance < 60, "Governance", "High",
        "Lack of formal security leadership and documented policies.")
  \o GapIf(profile.bcpDocumented # "yes" /\ scores.risk < 50, "Risk", "Medium",
        "Undefined Business Continuity Plan.")
  \o GapIf(scores.compliance < 50
           /\ (profile.industry = "fintech" \/ profile.industry = "healthcare"),
        "Compliance", "High",
        "Compliance posture is weak for a regulated industry.")
  \o GapIf(profile.vulnerabilityScanning = "never", "Technical", "High",
        "No visibility into system vulnerabilities.")
  \o GapIf(profile.encryption = "no", "Application", "High",
        "Sensitive data is not encrypted.")
  \o GapIf(profile.incidentResponsePlan # "yes", "Operational", "High",
        "No Incident Response Plan to handle breaches.")
  \o GapIf(profile.securityTraining # "regular", "Operational", "Medium",
        "Employees are not trained on security risks.")

identifyGaps(profile, scores) ==
  GapIf(scores.governance < 60, "Governance", "High",
        "Lack of formal security leadership and documented policies.")
  \o GapIf(profile.backupFrequency = "none", "Risk", "Critical",
        "No backup strategy found-data loss is imminent in an attack.")
  \o GapIf(profile.bcpDocumented # "yes" /\ scores.risk < 50, "Risk", "Medium",
        "Undefined Business Continuity Plan.")
  \o GapIf(scores.compliance < 50
           /\ (profile.industry = "fintech" \/ profile.industry = "healthcare"),
        "Compliance", "High",
        "Compliance posture is weak for a regulated industry.")
  \o GapIf(profile.vulnerabilityScanning = "never", "Technical", "High",
        "No visibility into system vulnerabilities.")
  \o GapIf(MfaGapGuard(profile), "Application", "Critical",
        "Multi-Factor Authentication (MFA) is not enabled.")
  \o GapIf(profile.encryption = "no", "Application", "High",
        "Sensitive data is not encrypted.")
  \o GapIf(profile.incidentResponsePlan # "yes", "Operational", "High",
        "No Incident Response Plan to handle breaches.")
  \o GapIf(profile.securityTraining # "regular", "Operational", "Medium",
        "Employees are not trained on security risks.")

\* ------------------------------------------------------- grcEngine.js
LIKELIHOOD_SCALE ==
  [i \in 1..5 |-> CASE i = 1 -> "Rare" [] i = 2 -> "Unlikely" [] i = 3 -> "Possible"
                    [] i = 4 -> "Likely" [] i = 5 -> "Almost Certain"]

CONSEQUENCE_SCALE ==
  [i \in 1..6 |-> CASE i = 1 -> "Insignificant" [] i = 2 -> "Minor"
                    [] i = 3 -> "Moderate" [] i = 4 -> "Major"
                    [] i = 5 -> "Catastrophic" [] i = 6 -> "Doomsday"]

\* The two builds of the engine: grcEngine.js ("current", top 15) and the
\* older file ("legacy", top 12).
Variants == {"current", "legacy"}

\* Variant of the cut that keeps ten records in either build.
TopNTen(variant) == 10

\* slice(0, 15) in grcEngine.js, slice(0, 12) in the older engine.
TopN(variant) == IF variant = "current" THEN 15 ELSE 12

\* Variant of getRiskLevel with the older breakpoints in both builds.
getRiskLevelOlderBreakpoints(variant, score) ==
  IF score >= 20 THEN "Extreme"
  ELSE IF score >= 12 THEN "High"
  ELSE IF score >= 6 THEN "Medium" ELSE "Low"

getRiskLevel(variant, score) ==
  IF variant = "current"
  THEN IF score >= 25 THEN "Extreme"
       ELSE IF score >= 15 THEN "High"
       ELSE IF score >= 6 THEN "Medium" ELSE "Low"
  ELSE IF score >= 20 THEN "Extreme"
       ELSE IF score >= 12 THEN "High"
       ELSE IF score >= 6 THEN "Medium" ELSE "Low"

\* Variant of RiskRecord whose score adds the two ordinals.
RiskRecordSum(variant, risk, likelihoodScore, consequenceScore, mitigation) ==
  [id               |-> << "R", 0 >>,
   risk             |-> risk,
   likelihoodScore  |-> likelihoodScore,
   likelihoodLabel  |-> LIKELIHOOD_SCALE[likelihoodScore],
   consequenceScore |-> consequenceScore,
   consequenceLabel |-> CONSEQUENCE_SCALE[consequenceScore],
   score            |-> likelihoodScore + consequenceScore,
   level            |-> getRiskLevel(variant, likelihoodScore + consequenceScore),
   mitigation       |-> mitigation]

\* The record addToPool pushes, before its temporary id `R${idCounter++}`
\* is known (NumberPool assigns it from the position in the pool).
RiskRecord(variant, risk, likelihoodScore, consequenceScore, mitigation) ==
  [id               |-> << "R", 0 >>,
   risk             |-> risk,
   likelihoodScore  |-> likelihoodScore,
   likelihoodLabel  |-> LIKELIHOOD_SCALE[likelihoodScore],
   consequenceScore |-> consequenceScore,
   consequenceLabel |-> CONSEQUENCE_SCALE[consequenceScore],
   score            |-> likelihoodScore * consequenceScore,
   level            |-> getRiskLevel(variant, likelihoodScore * consequenceScore),
   mitigation       |-> mitigation]

\* Variant of addToPool called outside its if: the record is always pushed.
addToPoolAlways(guard, variant, risk, likelihoodScore, consequenceScore, mitigation) ==
  << RiskRecord(variant, risk, likelihoodScore, consequenceScore, mitigation) >>

\* if (guard) addToPool(...): the rule contributes one record or none.
addToPool(guard, variant, risk, likelihoodScore, consequenceScore, mitigation) ==
  IF guard
  THEN << RiskRecord(variant, risk, likelihoodScore, consequenceScore, mitigation) >>
  ELSE << >>

\* idCounter starts at 1 and grows by one per push: the i-th record pushed
\* carries the temporary id "R" followed by i.
NumberPool(pool) ==
  [i \in 1..Len(pool) |-> [pool[i] EXCEPT !.id = << "R", i >>]]

\* grcEngine.js lines 180-235.
BuildPoolCurrent(profile) ==
  NumberPool(
    addToPool(profile.remote = "yes", "current", "Remote Endpoint Compromise",
              IF profile.mfa = "mandatory" THEN 2 ELSE 4, 4,
              "Enforce Endpoint Encryption, VPN, and Mandatory MFA")
    \o addToPool(profile.hosting = "cloud", "current",
              "Cloud Misconfiguration / Data Leak", 3, 5,
              "CSPM, Regular automated audits")
    \o addToPool(profile.backupFrequency = "none", "current",
              "Ransomware Data Loss", 5, 6,
              "Implement 3-2-1 Backup Strategy immediately")
    \o addToPool(profile.backupFrequency # "none", "current",
              "Ransomware Operational Impact", 3, 4, "Test Restore Procedures")
    \o addToPool(profile.mfa = "none", "current",
              "Credential Reuse / Brute Force", 5, 4,
              "Implement MFA for all accesses")
    \o addToPool(profile.encryption = "no", "current",
              "Data Theft in Transit/Rest", 3, 5,
              "Enable full disk encryption and TLS 1.3")
    \o addToPool(profile.incidentResponsePlan = "no", "current",
              "Chaotic Breach Response", 4, 4, "Develop and Test IR Playbooks")
    \o addToPool(profile.vendorRiskProgram = "no", "current",
              "Third-Party Vendor Breach", 3, 4,
              "Implement Vendor Risk Assessments")
    \o addToPool(TRUE, "current", "Phishing / Social Engineering", 4, 4,
              "Security Awareness Training")
    \o addToPool(TRUE, "current", "Insider Threat", 2, 3,
              "Least Privilege Access Control")
    \o addToPool(TRUE, "current", "Unpatched Vulnerabilities",
              IF profile.patchingAutomated = "yes" THEN 2 ELSE 4, 4,
              "Automated Patch Management")
    \o addToPool(TRUE, "current", "Shadow IT", 3, 2,
              "CASB and Policy Enforcement")
    \o addToPool(TRUE, "current", "DDoS Attack", 2, 3, "DDoS Mitigation Service")
    \o addToPool(TRUE, "current", "Regulatory Fines", 2, 5,
              "Compliance Gap Analysis"))

\* Older engine, lines 194 and 241: profile.dataTypes.includes(x) raises a
\* TypeError when dataTypes is absent.
DataTypesAbsent(profile) == profile.dataTypes = UndefList

\* Variant of the head rules in which the vendor rule pushes one record per
\* condition that holds instead of one record for their disjunction.
BuildPoolLegacyHeadPerCondition(profile) ==
  addToPool(profile.remote = "yes", "legacy", "Remote Endpoint Compromise",
            IF profile.mfa = "mandatory" THEN 2 ELSE 4, 4,
            "Enforce Endpoint Encryption, VPN, and Mandatory MFA")
  \o addToPool(profile.hosting = "cloud", "legacy", "Cloud Misconfiguration",
            IF profile.cloudDataClassification = "yes" THEN 2 ELSE 4, 5,
            "Enable Cloud Security Posture Management (CSPM), Regular Audits")
  \o addToPool(profile.vendors = "yes",
            "legacy", "Supply Chain / Third-Party Breach",
            IF profile.vendorRiskAssessments = "yes" THEN 2 ELSE 4, 4,
            "Vendor Risk Assessment Program, Least Privilege Access, SLAs")
  \o addToPool(profile.criticalVendorCount # UndefNum /\ profile.criticalVendorCount > 0,
            "legacy", "Supply Chain / Third-Party Breach",
            IF profile.vendorRiskAssessments = "yes" THEN 2 ELSE 4, 4,
            "Vendor Risk Assessment Program, Least Privilege Access, SLAs")

\* Older engine, lines 161-191: the rules evaluated before the first read
\* of profile.dataTypes.
BuildPoolLegacyHead(profile) ==
  addToPool(profile.remote = "yes", "legacy", "Remote Endpoint Compromise",
            IF profile.mfa = "mandatory" THEN 2 ELSE 4, 4,
            "Enforce Endpoint Encryption, VPN, and Mandatory MFA")
  \o addToPool(profile.hosting = "cloud", "legacy", "Cloud Misconfiguration",
            IF profile.cloudDataClassification = "yes" THEN 2 ELSE 4, 5,
            "Enable Cloud Security Posture Management (CSPM), Regular Audits")
  \o addToPool(profile.vendors = "yes"
               \/ (profile.criticalVendorCount # UndefNum /\ profile.criticalVendorCount > 0),
            "legacy", "Supply Chain / Third-Party Breach",
            IF profile.vendorRiskAssessments = "yes" THEN 2 ELSE 4, 4,
            "Vendor Risk Assessment Program, Least Privilege Access, SLAs")

\* Older engine, lines 193-376: the rules from the first read of
\* profile.dataTypes on (dataTypes is an array here).
BuildPoolLegacyTail(profile) ==
  addToPool("pii" \in profile.dataTypes \/ "financial" \in profile.dataTypes
               \/ "health" \in profile.dataTypes,
            "legacy", "Data Breach / Leakage (Sensitive Data)",
            IF profile.dataEncryptionAtRest = "yes" /\ profile.dataEncryptionInTransit = "yes"
            THEN 2 ELSE 4, 5,
            "Data Loss Prevention (DLP), Encryption at Rest/Transit, Access Logging")
  \o addToPool(profile.backupFrequency = "none", "legacy",
            "Ransomware Attack with Data Loss", 5, 6,
            "Implement Backup Strategy, Offline Backups, Incident Response Plan")
  \o addToPool(profile.backupFrequency # "none", "legacy",
            "Ransomware Attack (Recoverable)", 3, 4,
            "Regular Backups, EDR, Incident Response Plan")
  \o addToPool(profile.mfa # "mandatory", "legacy",
            "Credential Stuffing / Brute Force", 5, 4,
            "Mandatory MFA, Strong Password Policies, Account Lockout")
  \o addToPool(profile.logging # "advanced", "legacy",
            "Failure to Detect Intrusions", 4, 4,
            "Centralized Logging, SIEM, Real-time Alerting")
  \o addToPool(profile.compliance = "none"
               /\ ("pii" \in profile.dataTypes \/ profile.industry = "healthcare"),
            "legacy", "Regulatory Non-Compliance Fines", 5, 5,
            "Compliance Audits, Legal Counsel, Policy Management")
  \o addToPool(TRUE, "legacy", "Insider Threat / Privilege Abuse",
            IF profile.privilegedAccessManagement = "yes" THEN 2 ELSE 3, 3,
            "RBAC, Privileged Access Management, Audit Logging")
  \o addToPool(TRUE, "legacy", "Social Engineering & Phishing Attacks", 4, 4,
            "Security Awareness Training, Phishing Simulations, Email Filtering")
  \o addToPool(TRUE, "legacy", "Exploitation of Unpatched Vulnerabilities", 3, 4,
            "Automated Patch Management, Regular Vulnerability Scanning")
  \o addToPool(TRUE, "legacy", "Unsanctioned Shadow IT Usage", 3, 2,
            "Cloud Access Security Broker (CASB), Software Asset Management")
  \o addToPool(TRUE, "legacy", "Web Application Attacks (SQLi, XSS)", 3, 4,
            "Web Application Firewall (WAF), Secure Code Review, DAST/SAST")
  \o addToPool(TRUE, "legacy", "Denial of Service (DDoS) Attack", 2, 3,
            "DDoS Protection Services (e.g., Cloudflare), Redundancy")
  \o addToPool(TRUE, "legacy", "Mobile Device Compromise (BYOD)", 3, 3,
            "Mobile Device Management (MDM), Containerization, Remote Wipe")
  \o addToPool(TRUE, "legacy", "Insecure API Endpoints", 3, 4,
            "API Gateway, Rate Limiting, API Authentication")
  \o addToPool(TRUE, "legacy", "Data Integrity Corruption", 1, 5,
            "File Integrity Monitoring (FIM), Checksums, Backup Validation")
  \o addToPool(TRUE, "legacy", "Physical Security Breach", 2, 3,
            "Access Cards, CCTV, Visitor Management")
  \o addToPool(TRUE, "legacy", "Reputational Damage from Incident", 3, 5,
            "Crisis Communication Plan, PR Strategy")
  \o addToPool(TRUE, "legacy", "Theft of Intellectual Property", 2, 5,
            "DLP, Access Control, NDA, DRM")
  \o addToPool(TRUE, "legacy", "Business Interruption / Failure", 2, 6,
            "Business Continuity Plan (BCP), Disaster Recovery (DR) Drills")
  \o addToPool(TRUE, "legacy", "Insecure Default Configurations", 3, 4,
            "Hardening Benchmarks (CIS), Automated Config Management")
  \o addToPool(TRUE, "legacy", "Network Eavesdropping / MitM",
            IF profile.dataEncryptionInTransit = "yes" THEN 1 ELSE 2, 3,
            "End-to-End Encryption, VPN, Mutual TLS")
  \o addToPool(TRUE, "legacy", "Inadequate Employee Offboarding", 3, 3,
            "Automated Account Deprovisioning, Exit Interviews")
  \o addToPool(TRUE, "legacy", "Data Leakage via AI/LLM Tools", 4, 4,
            "AI Usage Policy, Enterprise AI Gateways")
  \o addToPool(TRUE, "legacy", "Brand Impersonation on Social Media", 3, 2,
            "Social Media Monitoring, Verified Profiles")

\* Variant of the comparator that sorts ascending.
compareFnAscending(a, b) == a.score - b.score

\* pool.sort((a, b) => b.score - a.score): the comparator.
compareFn(a, b) == b.score - a.score

\* Variant of the insertion step that puts x in front of its equals.
InsertBeforeEquals(s, x) ==
  LET k == Cardinality({i \in 1..Len(s) : s[i].score > x.score})
  IN SubSeq(s, 1, k) \o << x >> \o SubSeq(s, k + 1, Len(s))

\* One step of a stable sort: x, which followed every element of the
\* sorted prefix s in the array, is placed behind every element that the
\* comparator does not order after it (compareFn(e, x) <= 0).
InsertStable(s, x) ==
  LET k == Cardinality({i \in 1..Len(s) : compareFn(s[i], x) <= 0})
  IN SubSeq(s, 1, k) \o << x >> \o SubSeq(s, k + 1, Len(s))

\* Array.prototype.sort: stable (ECMAScript 2019), by compareFn.
RECURSIVE sort(_)
sort(pool) ==
  IF pool = << >> THEN << >>
  ELSE InsertStable(sort(SubSeq(pool, 1, Len(pool) - 1)), pool[Len(pool)])

\* Variant of slice that starts one element late: pool.slice(1, n).
sliceFromOne(arr, n) == SubSeq(arr, 2, IF Len(arr) < n THEN Len(arr) ELSE n)

\* pool.slice(0, n)
slice(arr, n) == SubSeq(arr, 1, IF Len(arr) < n THEN Len(arr) ELSE n)

\* selectedRisks.map((r, index) => ({ ...r, id: index + 1 }))
Renumber(selectedRisks) ==
  [i \in 1..Len(selectedRisks) |-> [selectedRisks[i] EXCEPT !.id = i]]

\* generateBaseRisks of either build.  pool is the array handed to sort
\* (on a raise: what had been pushed when the TypeError was thrown).
generateBaseRisks(variant, profile) ==
  IF variant = "legacy" /\ DataTypesAbsent(profile)
  THEN [status |-> "raised", pool |-> NumberPool(BuildPoolLegacyHead(profile)),
        risks |-> << >>]
  ELSE LET pool == IF variant = "current" THEN BuildPoolCurrent(profile)
                   ELSE NumberPool(BuildPoolLegacyHead(profile)
                                   \o BuildPoolLegacyTail(profile))
       IN [status |-> "returned", pool |-> pool,
           risks |-> Renumber(slice(sort(pool), TopN(variant)))]

\* ------------------------------------------------------------ aiEngine.js
\* The four exported capabilities.
Capabilities == {"summary", "recommendations", "roadmap", "quantification"}

\* profile.<list>.join(', ') : a TypeError when the list is absent.
joinRaises(list) == list = UndefList

\* profile.<list>?.join(', ') || 'None' : an absent list gives the default.
optionalJoinRaises(list) == FALSE

\* The ways one round trip of callOllama ends in a thrown Error (lines
\* 39-56): the 60 s abort, and a failed fetch / HTTP status / empty response.
Timeout == "<AbortError>"

NetworkError == "<fetch failed>"

Failures == {Timeout, NetworkError}

\* callOllama(prompt, options): one fetch, no retry; data.response or a throw.
callOllama(reply) ==
  IF reply \in Failures
  THEN [status |-> "raised", value |-> reply]
  ELSE [status |-> "returned", value |-> reply]

\* Texts a model can answer with where JSON is asked for.
RecommendationsJson == "{\"recommendations\":[{\"id\":1}]}"

QuantifiedJson == "[{\"risk\":\"Ransomware\",\"sle\":250000}]"

ObjectJson == "{\"risks\":[]}"

NullJson == "null"

NotJson == "Here are my recommendations: ..."

\* A JavaScript value by its type; items holds the elements of an array and
\* the recommendations property of an object.
JsArray(items) == [type |-> "array", items |-> items]

JsObject(recommendations) == [type |-> "object", items |-> recommendations]

JsNull == [type |-> "null", items |-> << >>]

\* JSON.parse(response): the parsed value, or a SyntaxError.
JSONparse(text) ==
  CASE text = RecommendationsJson ->
         [status |-> "returned",
          value |-> JsObject(<< [id |-> 1, title |-> "Enable MFA",
                                 priority |-> "Critical"] >>)]
    [] text = QuantifiedJson ->
         [status |-> "returned",
          value |-> JsArray(<< [risk |-> "Ransomware", sle |-> 250000, aro |-> 1,
                                ale |-> 250000, mitigationCost |-> 20000,
                                roi |-> 12] >>)]
    [] text = ObjectJson -> [status |-> "returned", value |-> JsObject(<< >>)]
    [] text = NullJson -> [status |-> "returned", value |-> JsNull]
    [] OTHER -> [status |-> "raised", value |-> JsNull]

\* What each capability can be answered with.
Replies ==
  [ summary |-> {"Strategic risk: moderate.", "Critical exposure."} \cup Failures,
    recommendations |-> {RecommendationsJson, NotJson, NullJson} \cup Failures,
    roadmap |-> {"# Compliance Roadmap (AI)", Timeout},
    quantification |-> {QuantifiedJson, NotJson, ObjectJson} \cup Failures ]

\* Each capability below gives: status / value as the awaited promise
\* settles, issued = 1 when callOllama was reached, and failure = what kept
\* the model's answer from being delivered ("none" when it was).

\* A summary capability that asks the model a second time after a failure.
generateExecutiveSummaryRetrying(profile, maturityScore, reply) ==
  IF joinRaises(profile.dataTypes)
  THEN [status |-> "raised", value |-> "TypeError", issued |-> 0,
        failure |-> "prompt"]
  ELSE LET r == callOllama(reply)
       IN [status |-> r.status, value |-> r.value,
           issued |-> IF r.status = "raised" THEN 2 ELSE 1,
           failure |-> IF r.status = "raised" THEN r.value ELSE "none"]

\* generateExecutiveSummary(profile, maturityScore), lines 66-90.  The prompt
\* reads profile.dataTypes.join (line 73) and
\* profile.regulatoryRequirements?.join (line 79) before the call.
generateExecutiveSummary(profile, maturityScore, reply) ==
  IF joinRaises(profile.dataTypes)
     \/ optionalJoinRaises(profile.regulatoryRequirements)
  THEN [status |-> "raised", value |-> "TypeError", issued |-> 0,
        failure |-> "prompt"]
  ELSE LET r == callOllama(reply)
       IN [status |-> r.status, value |-> r.value, issued |-> 1,
           failure |-> IF r.status = "raised" THEN r.value ELSE "none"]

\* generateRecommendations(profile, gaps, maturityScore), lines 99-154.  The
\* prompt reads no list; every failure of the call or of JSON.parse is
\* caught inside and answered with { recommendations: [] }.
generateRecommendations(profile, gaps, maturityScore, reply) ==
  LET r == callOllama(reply)
      parsed == JSONparse(r.value)
  IN IF r.status = "raised"
     THEN [status |-> "returned", value |-> JsObject(<< >>), issued |-> 1,
           failure |-> r.value]
     ELSE IF parsed.status = "raised"
     THEN [status |-> "returned", value |-> JsObject(<< >>), issued |-> 1,
           failure |-> "unparseable"]
     ELSE [status |-> "returned", value |-> parsed.value, issued |-> 1,
           failure |-> IF parsed.value.type = "object" /\ parsed.value.items # << >>
                       THEN "none" ELSE "malformed"]

\* generateComplianceRoadmap(profile), lines 161-197.  The prompt reads
\* profile.dataTypes.join (line 168) and ?.join of the other two lists.
generateComplianceRoadmap(profile, reply) ==
  IF joinRaises(profile.dataTypes)
     \/ optionalJoinRaises(profile.existingCertifications)
     \/ optionalJoinRaises(profile.regulatoryRequirements)
  THEN [status |-> "raised", value |-> "TypeError", issued |-> 0,
        failure |-> "prompt"]
  ELSE LET r == callOllama(reply)
       IN [status |-> r.status, value |-> r.value, issued |-> 1,
           failure |-> IF r.status = "raised" THEN r.value ELSE "none"]

\* quantifyRisks(profile, risks), lines 205-254.  The prompt is built
\* outside the try and reads profile.dataTypes.join (line 214); a failure
\* of the call or of JSON.parse is caught inside and answered with [].
quantifyRisks(profile, risks, reply) ==
  IF joinRaises(profile.dataTypes)
  THEN [status |-> "raised", value |-> JsNull, issued |-> 0,
        failure |-> "prompt"]
  ELSE LET r == callOllama(reply)
           parsed == JSONparse(r.value)
       IN IF r.status = "raised"
          THEN [status |-> "returned", value |-> JsArray(<< >>), issued |-> 1,
                failure |-> r.value]
          ELSE IF parsed.status = "raised"
          THEN [status |-> "returned", value |-> JsArray(<< >>), issued |-> 1,
                failure |-> "unparseable"]
          ELSE [status |-> "returned", value |-> parsed.value, issued |-> 1,
                failure |-> IF parsed.value.type = "array" THEN "none"
                            ELSE "malformed"]

\* ------------------------------------------- grcEngine.js, the fallbacks
\* `${x}` of a string field (an absent one already holds the text
\* "undefined") and of a number field.
Str(s) == s

Num(n) == IF n = UndefNum THEN "undefined" ELSE ToString(n)

\* gaps.filter(g => g.severity === 'Critical')
criticalGaps(gaps) == SelectSeq(gaps, LAMBDA g : g.severity = "Critical")

\* criticalGaps[i]?.description || dflt   (i from 1)
DescriptionOr(list, i, dflt) ==
  IF i <= Len(list) /\ list[i].description # "" THEN list[i].description
  ELSE dflt

\* A fallback summary that comes out empty.
generateFallbackSummaryEmpty(variant, profile, maturity, gaps) ==
  [status |-> "returned", value |-> ""]

\* generateFallbackSummary(profile, maturity, gaps): lines 250-252, and
\* lines 502-519 of the older build.
generateFallbackSummary(variant, profile, maturity, gaps) ==
  IF variant = "current"
  THEN [status |-> "returned",
        value |-> "# Executive Summary for " \o Str(profile.name)
                  \o "\n\nOverall Score: **" \o Num(maturity.overall)
                  \o "%**\n\nIdentified " \o Num(Len(gaps))
                  \o " key gaps. Recommendations follow below."]
  ELSE LET critical == criticalGaps(gaps)
       IN [status |-> "returned",
           value |-> "# Executive Summary\n\n" \o Str(profile.name)
                     \o " has achieved an overall security maturity score of **"
                     \o Num(maturity.overall) \o "%**\n\n**Key Findings:**\n- "
                     \o Num(Len(critical)) \o " critical security gaps identified"
                     \o "\n- Current maturity level: "
                     \o (IF maturity.overall >= 80 THEN "Strong"
                         ELSE IF maturity.overall >= 60 THEN "Moderate"
                         ELSE "Developing")
                     \o "\n- Industry: " \o Str(profile.industry)
                     \o "\n- Employee Count: " \o Num(profile.employees)
                     \o "\n\n**Priority Actions Required:**\n1. "
                     \o DescriptionOr(critical, 1, "Improve overall security posture")
                     \o "\n2. "
                     \o DescriptionOr(critical, 2, "Enhance compliance documentation")
                     \o "\n3. "
                     \o DescriptionOr(critical, 3, "Implement missing technical controls")]

\* A recommendations fallback that reads a property no gap record has
\* (gap.remediation.steps): a TypeError as soon as there is a gap.
generateFallbackRecommendationsDeepRead(variant, gaps) ==
  IF Len(gaps) > 0
  THEN [status |-> "raised", value |-> << >>]
  ELSE [status |-> "returned", value |-> << >>]

\* generateFallbackRecommendations(gaps): lines 254-261 (older build
\* 524-538, which adds category, businessImpact and fixed cost fields).
generateFallbackRecommendations(variant, gaps) ==
  LET first == slice(gaps, 10)
  IN [status |-> "returned",
      value |-> [i \in 1..Len(first) |->
                   IF variant = "current"
                   THEN [id |-> i,
                         title |-> "Fix " \o first[i].category \o " Issue",
                         priority |-> first[i].severity,
                         steps |-> << "Investigate", "Remediate" >>]
                   ELSE [id |-> i,
                         title |-> "Address " \o first[i].category \o " Gap",
                         category |-> first[i].category,
                         priority |-> first[i].severity,
                         businessImpact |-> first[i].description,
                         steps |-> << "Assess current state", "Design solution",
                                      "Implement controls", "Verify effectiveness" >>]]]

\* A fallback roadmap that reads the absent list whatever the build.
generateFallbackComplianceRoadmapUnguarded(variant, profile) ==
  IF DataTypesAbsent(profile)
  THEN [status |-> "raised", value |-> "TypeError"]
  ELSE [status |-> "returned", value |-> "# Compliance Roadmap"]

\* generateFallbackComplianceRoadmap(profile): lines 263-265; the older
\* build (543-554) reads profile.dataTypes.includes.
generateFallbackComplianceRoadmap(variant, profile) ==
  IF variant = "current"
  THEN [status |-> "returned",
        value |-> "# Compliance Roadmap\n\nFocus on standard frameworks relevant to "
                  \o Str(profile.industry) \o "."]
  ELSE IF DataTypesAbsent(profile)
  THEN [status |-> "raised", value |-> "TypeError"]
  ELSE [status |-> "returned",
        value |-> "# Compliance Roadmap for " \o Str(profile.name)
                  \o "\n\nBased on your industry (" \o Str(profile.industry)
                  \o ") and data types, the following compliance frameworks are recommended:"
                  \o "\n\n1. **ISO 27001**\n2. **SOC 2 Type II** - Trust Service Criteria for "
                  \o Str(profile.industry) \o "\n"
                  \o (IF "pii" \in profile.dataTypes
                      THEN "3. **GDPR/CCPA** - Privacy regulations (REQUIRED)\n" ELSE "")
                  \o "\n"
                  \o (IF "financial" \in profile.dataTypes
                      THEN "4. **PCI-DSS** - Payment Card Industry (REQUIRED)\n" ELSE "")
                  \o "\n\nContact a compliance consultant for detailed roadmap implementation."]

\* baseRisks.map((r) => ({ risk: r.risk, sle: 0, ... roi: 0 })), lines 76-83.
zeroQuantification(baseRisksList) ==
  [i \in 1..Len(baseRisksList) |->
     [risk |-> baseRisksList[i].risk, sle |-> 0, aro |-> 0, ale |-> 0,
      mitigationCost |-> 0, roi |-> 0]]

\* The sections of the returned object that are computed while it is built:
\* the older build calls generateComplianceSection (lines 446-486), which
\* reads profile.dataTypes.includes; the current build reads maturity only.
sectionsRaise(variant, profile) == variant = "legacy" /\ DataTypesAbsent(profile)

\* ------------------------------------------------ Report, RiskMatrix
\* getCellColor(l, c), lines 346-352: the colour of a matrix cell.
getCellColor(l, c) ==
  LET score == l * c
  IN IF score >= 25 THEN "#ef4444"
     ELSE IF score >= 15 THEN "#f97316"
     ELSE IF score >= 6 THEN "#eab308" ELSE "#22c55e"

\* The badge colour of a level in the risk register (lines 706-708).
badgeColor(level) ==
  IF level = "Extreme" THEN "#ef4444"
  ELSE IF level = "High" THEN "#f97316"
  ELSE IF level = "Medium" THEN "#eab308" ELSE "#22c55e"

\* ------------------------------------------------------ Assessment.jsx
YES_NO == {"yes", "no", UndefStr}

\* FREQUENCY_OPTIONS ids, or absent.
FREQUENCY == {"daily", "weekly", "monthly", "quarterly", "annual", "never", UndefStr}

\* COMPLIANCE_LIST ids.
COMPLIANCE_LIST == {"iso27001", "soc2", "pci_dss", "hipaa", "gdpr", "nist"}

\* The values a caller can give each field that update() sets: the options
\* the form offers, a value outside them where the code compares against a
\* literal, and the absent marker.
Values ==
  [ industry |-> {"fintech", "healthcare", "saas", "default", "retail",
                  "constructor", UndefStr},
    policiesDocumented |-> {"complete", "partial", "none", UndefStr},
    cisoPresent |-> YES_NO,
    securityTeamSize |-> {0, 5, UndefNum},
    managementReview |-> FREQUENCY,
    riskAssessmentFreq |-> FREQUENCY,
    bcpDocumented |-> YES_NO,
    backupFrequency |-> {"real_time", "daily", "weekly", "none", UndefStr},
    cyberInsurance |-> YES_NO,
    complianceFrameworks |-> {UndefList},
    privacyProgram |-> YES_NO,
    lastAuditDate |-> {"", "2024-06-30", "never", UndefStr},
    firewallEnabled |-> YES_NO,
    networkSegmentation |-> YES_NO,
    antivirus |-> YES_NO,
    edr |-> YES_NO,
    vulnerabilityScanning |-> {"regular", "ad_hoc", "never", UndefStr},
    patchingAutomated |-> YES_NO,
    mfa |-> {"mandatory", "optional", "none", UndefStr},
    sso |-> YES_NO,
    encryption |-> YES_NO,
    codeReview |-> YES_NO,
    incidentResponsePlan |-> YES_NO,
    securityTraining |-> {"regular", "none", UndefStr},
    vendorRiskProgram |-> YES_NO,
    remote |-> YES_NO,
    hosting |-> {"cloud", "on_premise", UndefStr},
    criticalVendorCount |-> {5, 0, UndefNum},
    cloudDataClassification |-> YES_NO,
    vendors |-> YES_NO,
    vendorRiskAssessments |-> YES_NO,
    dataTypes |-> {{}, {"pii"}, {"financial"}, {"health"},
                   {"pii", "financial", "health"}, UndefList},
    dataEncryptionAtRest |-> YES_NO,
    dataEncryptionInTransit |-> YES_NO,
    logging |-> {"advanced", "basic", UndefStr},
    compliance |-> {"none", "iso27001", UndefStr},
    privilegedAccessManagement |-> YES_NO,
    name |-> {"", "Acme", UndefStr},
    employees |-> {50, UndefNum},
    securityBudget |-> {"50000", UndefStr},
    regulatoryRequirements |-> {{"gdpr"}, UndefList},
    existingCertifications |-> {{"iso27001"}, UndefList} ]

Fields == DOMAIN Values

\* useState({...}) of the Assessment form, lines 30-74; the fields only the
\* older engine or the AI prompts read are not part of the form and are
\* absent.
FormDefault ==
  [ industry |-> "saas",
    policiesDocumented |-> "none", cisoPresent |-> "no",
    securityTeamSize |-> 0, managementReview |-> "never",
    riskAssessmentFreq |-> "never", bcpDocumented |-> "no",
    backupFrequency |-> "none", cyberInsurance |-> "no",
    complianceFrameworks |-> {}, privacyProgram |-> "no", lastAuditDate |-> "",
    firewallEnabled |-> "yes", networkSegmentation |-> "no",
    antivirus |-> "yes", edr |-> "no",
    vulnerabilityScanning |-> "never", patchingAutomated |-> "no",
    mfa |-> "none", sso |-> "no", encryption |-> "no", codeReview |-> "no",
    incidentResponsePlan |-> "no", securityTraining |-> "none",
    vendorRiskProgram |-> "no",
    remote |-> "yes", hosting |-> "cloud", criticalVendorCount |-> 5,
    cloudDataClassification |-> UndefStr, vendors |-> UndefStr,
    vendorRiskAssessments |-> UndefStr, dataTypes |-> UndefList,
    dataEncryptionAtRest |-> UndefStr, dataEncryptionInTransit |-> UndefStr,
    logging |-> UndefStr, compliance |-> UndefStr,
    privilegedAccessManagement |-> UndefStr,
    name |-> "", employees |-> UndefNum, securityBudget |-> UndefStr,
    regulatoryRequirements |-> UndefList,
    existingCertifications |-> UndefList ]

\* The object {} : every field absent.
EmptyProfile ==
  [ f \in Fields |->
      IF f \in {"securityTeamSize", "criticalVendorCount", "employees"}
      THEN UndefNum
      ELSE IF f \in {"complianceFrameworks", "dataTypes",
                     "regulatoryRequirements", "existingCertifications"}
      THEN UndefList
      ELSE UndefStr ]

\* Every control at its strongest option, no exposure.
BestProfile ==
  [ industry |-> "saas",
    policiesDocumented |-> "complete", cisoPresent |-> "yes",
    securityTeamSize |-> 5, managementReview |-> "quarterly",
    riskAssessmentFreq |-> "quarterly", bcpDocumented |-> "yes",
    backupFrequency |-> "daily", cyberInsurance |-> "yes",
    complianceFrameworks |-> {"iso27001", "soc2"}, privacyProgram |-> "yes",
    lastAuditDate |-> "2024-06-30",
    firewallEnabled |-> "yes", networkSegmentation |-> "yes",
    antivirus |-> "yes", edr |-> "yes",
    vulnerabilityScanning |-> "regular", patchingAutomated |-> "yes",
    mfa |-> "mandatory", sso |-> "yes", encryption |-> "yes", codeReview |-> "yes",
    incidentResponsePlan |-> "yes", securityTraining |-> "regular",
    vendorRiskProgram |-> "yes",
    remote |-> "no", hosting |-> "on_premise", criticalVendorCount |-> 0,
    cloudDataClassification |-> "yes", vendors |-> "no",
    vendorRiskAssessments |-> "yes", dataTypes |-> {},
    dataEncryptionAtRest |-> "yes", dataEncryptionInTransit |-> "yes",
    logging |-> "advanced", compliance |-> "iso27001",
    privilegedAccessManagement |-> "yes",
    name |-> "Acme", employees |-> 50, securityBudget |-> "50000",
    regulatoryRequirements |-> {"gdpr"},
    existingCertifications |-> {"iso27001"} ]

\* The form's defaults completed with the older engine's fields, every
\* one of them exposing a risk.
ExposedProfile ==
  [ FormDefault EXCEPT
      !.cloudDataClassification = "no", !.vendors = "yes",
      !.vendorRiskAssessments = "no", !.dataTypes = {"pii", "financial", "health"},
      !.dataEncryptionAtRest = "no", !.dataEncryptionInTransit = "no",
      !.logging = "basic", !.compliance = "none",
      !.privilegedAccessManagement = "no" ]

\* A half-way organisation in a regulated industry.
PartialProfile ==
  [ BestProfile EXCEPT
      !.industry = "fintech", !.policiesDocumented = "partial",
      !.cisoPresent = "no", !.managementReview = "annual",
      !.riskAssessmentFreq = "monthly", !.bcpDocumented = "no",
      !.backupFrequency = "weekly", !.complianceFrameworks = {"pci_dss"},
      !.lastAuditDate = "never", !.networkSegmentation = "no",
      !.vulnerabilityScanning = "ad_hoc", !.patchingAutomated = "no",
      !.mfa = "optional", !.codeReview = "no",
      !.securityTraining = "none", !.vendorRiskProgram = "no",
      !.remote = "yes", !.hosting = "cloud", !.criticalVendorCount = 5,
      !.vendors = "yes", !.dataTypes = {"financial"},
      !.dataEncryptionAtRest = "no", !.logging = "basic",
      !.compliance = "none" ]

\* Every control at its weakest option: each scorer at its minimum.
WorstProfile ==
  [ ExposedProfile EXCEPT !.firewallEnabled = "no", !.antivirus = "no" ]

BaseProfiles ==
  {FormDefault, EmptyProfile, BestProfile, ExposedProfile, PartialProfile,
   WorstProfile}

\* ---------------------------------------------------------------- state
VARIABLES
  variant,    \* which build of the engine is deployed
  profile,    \* formData / the profile handed to generateReport
  updates,    \* how many form changes were made
  pc,         \* "assessment", then the position inside generateReport
  maturity,   \* const maturity  (generateReport, line 24)
  gaps,       \* const gaps      (line 32)
  baseRisks,  \* const baseRisks (line 36), with the pool it was cut from
  executiveSummary,   \* let executiveSummary  (line 40)
  aiRecommendations,  \* let aiRecommendations (line 50)
  complianceRoadmap,  \* let complianceRoadmap (line 61)
  quantifiedRisks,    \* let quantifiedRisks   (line 71)
  calls,      \* per capability: times invoked, generation calls issued,
              \* and what kept the model's answer from being delivered
  report      \* the value generateReport resolved with

\* App.jsx lines 10-11 and Report.jsx lines 116-118.
VARIABLES
  view,       \* App: useState('home')
  appProfile, \* App: useState(null), the profile handed to Report
  loading,    \* Report: useState(true)
  data,       \* Report: useState(null)
  pressed     \* the control the user activated last

appVars == << view, appProfile, loading, data, pressed >>

aiVars == << executiveSummary, aiRecommendations, complianceRoadmap,
             quantifiedRisks, calls, report >>

vars == << variant, profile, updates, pc, maturity, gaps, baseRisks,
           executiveSummary, aiRecommendations, complianceRoadmap,
           quantifiedRisks, calls, report, view, appProfile, loading, data,
           pressed >>

\* JavaScript null.
null == [type |-> "null"]

NotRun == [status |-> "none"]

NotCalled == [invoked |-> 0, issued |-> 0, failure |-> "pending"]

Init ==
  /\ variant \in Variants
  /\ profile \in BaseProfiles
  /\ updates = 0
  /\ pc = "assessment"
  /\ maturity = NotRun
  /\ gaps = << >>
  /\ baseRisks = [status |-> "none", pool |-> << >>, risks |-> << >>]
  /\ executiveSummary = ""
  /\ aiRecommendations = << >>
  /\ complianceRoadmap = ""
  /\ quantifiedRisks = JsArray(<< >>)
  /\ calls = [c \in Capabilities |-> NotCalled]
  /\ report = NotRun
  /\ view = "assessment"
  /\ appProfile = null
  /\ loading = TRUE
  /\ data = null
  /\ pressed = "Start Assessment"

\* const update = (field, value) => setFormData(p => ({ ...p, [field]: value }))
update(field, value) ==
  /\ pc = "assessment"
  /\ updates < MaxUpdates
  /\ profile[field] # value
  /\ profile' = [profile EXCEPT ![field] = value]
  /\ updates' = updates + 1
  /\ UNCHANGED << variant, pc, maturity, gaps, baseRisks, aiVars >>
  /\ UNCHANGED appVars

\* const toggle = (field, value) => ... arr.includes(value) ? filter : append
toggle(field, value) ==
  /\ pc = "assessment"
  /\ updates < MaxUpdates
  /\ profile[field] # UndefList
  /\ profile' = [profile EXCEPT ![field] =
                   IF value \in profile[field] THEN profile[field] \ {value}
                   ELSE profile[field] \cup {value}]
  /\ updates' = updates + 1
  /\ UNCHANGED << variant, pc, maturity, gaps, baseRisks, aiVars >>
  /\ UNCHANGED appVars

\* generateReport(profile), lines 19-36: everything before the first await.
\* An exception thrown here rejects the promise.
generateReport ==
  /\ pc = "assessment"
  /\ LET m == calculateMaturityScore(profile)
         r == generateBaseRisks(variant, profile)
     IN /\ maturity' = m
        /\ IF m.status = "raised"
           THEN /\ pc' = "rejected"
                /\ UNCHANGED << gaps, baseRisks >>
           ELSE /\ gaps' = identifyGaps(profile, m)
                /\ baseRisks' = r
                /\ pc' = IF r.status = "raised" THEN "rejected" ELSE "ai_summary"
  /\ UNCHANGED << variant, profile, updates, aiVars >>
  /\ UNCHANGED appVars

\* What a capability call leaves in the call log.
Called(c, r) ==
  [calls EXCEPT ![c] = [invoked |-> @.invoked + 1, issued |-> @.issued + r.issued,
                        failure |-> r.failure]]

\* Lines 38-46: await generateExecutiveSummary, or the fallback summary.
awaitExecutiveSummary(reply) ==
  /\ pc = "ai_summary"
  /\ LET r == generateExecutiveSummary(profile, maturity, reply)
         f == generateFallbackSummary(variant, profile, maturity, gaps)
     IN /\ calls' = Called("summary", r)
        /\ IF r.status = "returned"
           THEN executiveSummary' = r.value /\ pc' = "ai_recommendations"
           ELSE IF f.status = "returned"
           THEN executiveSummary' = f.value /\ pc' = "ai_recommendations"
           ELSE UNCHANGED executiveSummary /\ pc' = "rejected"
  /\ UNCHANGED << variant, profile, updates, maturity, gaps, baseRisks,
                  aiRecommendations, complianceRoadmap, quantifiedRisks, report >>
  /\ UNCHANGED appVars

\* Lines 48-57: await generateRecommendations and read result.recommendations
\* (a TypeError when result is null), or the fallback recommendations.
awaitRecommendations(reply) ==
  /\ pc = "ai_recommendations"
  /\ LET r == generateRecommendations(profile, gaps, maturity, reply)
         f == generateFallbackRecommendations(variant, gaps)
     IN /\ calls' = Called("recommendations", r)
        /\ IF r.status = "returned" /\ r.value.type # "null"
           THEN /\ aiRecommendations' =
                     (IF r.value.type = "object" THEN r.value.items ELSE << >>)
                /\ pc' = "ai_roadmap"
           ELSE IF f.status = "returned"
           THEN aiRecommendations' = f.value /\ pc' = "ai_roadmap"
           ELSE UNCHANGED aiRecommendations /\ pc' = "rejected"
  /\ UNCHANGED << variant, profile, updates, maturity, gaps, baseRisks,
                  executiveSummary, complianceRoadmap, quantifiedRisks, report >>
  /\ UNCHANGED appVars

\* Lines 59-67: await generateComplianceRoadmap, or the fallback roadmap.
awaitComplianceRoadmap(reply) ==
  /\ pc = "ai_roadmap"
  /\ LET r == generateComplianceRoadmap(profile, reply)
         f == generateFallbackComplianceRoadmap(variant, profile)
     IN /\ calls' = Called("roadmap", r)
        /\ IF r.status = "returned"
           THEN complianceRoadmap' = r.value /\ pc' = "ai_quantify"
           ELSE IF f.status = "returned"
           THEN complianceRoadmap' = f.value /\ pc' = "ai_quantify"
           ELSE UNCHANGED complianceRoadmap /\ pc' = "rejected"
  /\ UNCHANGED << variant, profile, updates, maturity, gaps, baseRisks,
                  executiveSummary, aiRecommendations, quantifiedRisks, report >>
  /\ UNCHANGED appVars

\* A report that lists only as many gaps as it has recommendations.
assembleGapsPerRecommendation(summary, recommendations, roadmap, quantified) ==
  [ status |-> "resolved",
    executiveSummary |-> summary, recommendations |-> recommendations,
    complianceRoadmap |-> roadmap,
    maturity |-> maturity, gaps |-> slice(gaps, Len(recommendations)),
    risks |-> baseRisks.risks, quantifiedRisks |-> quantified ]

\* The object of lines 89-116.
assemble(summary, recommendations, roadmap, quantified) ==
  [ status |-> "resolved",
    executiveSummary |-> summary, recommendations |-> recommendations,
    complianceRoadmap |-> roadmap,
    maturity |-> maturity, gaps |-> gaps, risks |-> baseRisks.risks,
    quantifiedRisks |-> quantified ]

\* Variant of the last step that quantifies only as many risks as the
\* model recommended actions for (an AI result feeding the next call).
awaitQuantifyRisksPerRecommendation(reply) ==
  /\ pc = "ai_quantify"
  /\ LET fed == slice(baseRisks.risks, Len(aiRecommendations))
         r == quantifyRisks(profile, fed, reply)
         q == IF r.status = "returned" THEN r.value
              ELSE JsArray(zeroQuantification(fed))
     IN /\ calls' = Called("quantification", r)
        /\ quantifiedRisks' = q
        /\ IF sectionsRaise(variant, profile)
           THEN pc' = "rejected" /\ UNCHANGED report
           ELSE /\ pc' = "resolved"
                /\ report' = assemble(executiveSummary, aiRecommendations,
                                      complianceRoadmap, q)
  /\ UNCHANGED << variant, profile, updates, maturity, gaps, baseRisks,
                  executiveSummary, aiRecommendations, complianceRoadmap >>
  /\ UNCHANGED appVars

\* Lines 69-116: await quantifyRisks, or the zero-valued records; then the
\* report is built and returned.
awaitQuantifyRisks(reply) ==
  /\ pc = "ai_quantify"
  /\ LET r == quantifyRisks(profile, baseRisks.risks, reply)
         q == IF r.status = "returned" THEN r.value
              ELSE JsArray(zeroQuantification(baseRisks.risks))
     IN /\ calls' = Called("quantification", r)
        /\ quantifiedRisks' = q
        /\ IF sectionsRaise(variant, profile)
           THEN pc' = "rejected" /\ UNCHANGED report
           ELSE /\ pc' = "resolved"
                /\ report' = assemble(executiveSummary, aiRecommendations,
                                      complianceRoadmap, q)
  /\ UNCHANGED << variant, profile, updates, maturity, gaps, baseRisks,
                  executiveSummary, aiRecommendations, complianceRoadmap >>
  /\ UNCHANGED appVars

Next ==
  \/ \E field \in Fields : \E value \in Values[field] : update(field, value)
  \/ \E value \in COMPLIANCE_LIST : toggle("complianceFrameworks", value)
  \/ generateReport

Spec == Init /\ [][Next]_vars

\* The whole of generateReport, awaits included.  The form changes are
\* drawn from the fields the awaited steps and their fallbacks read.
PromptFields == {"dataTypes", "industry", "name", "mfa"}

NextAI ==
  \/ \E field \in PromptFields : \E value \in Values[field] : update(field, value)
  \/ generateReport
  \/ \E reply \in Replies.summary : awaitExecutiveSummary(reply)
  \/ \E reply \in Replies.recommendations : awaitRecommendations(reply)
  \/ \E reply \in Replies.roadmap : awaitComplianceRoadmap(reply)
  \/ \E reply \in Replies.quantification : awaitQuantifyRisks(reply)

SpecAI == Init /\ [][NextAI]_vars

\* ---------------------------------------------------------------- App.jsx
\* The six views of App (line 10).
Views == {"home", "plans", "trial", "assessment", "report", "about"}

\* <Report profile={profile} onBack={reset} /> (App.jsx line 43): the
\* props App passes, each with the handler or value bound to it.
ReportPropsPassed == {<< "profile", "profile" >>, << "onBack", "reset" >>}

\* const Report = ({ profile, onReset }) => ... (Report.jsx line 115): the
\* value destructuring gives a prop; undefined when App passes none of
\* that name.
ReportProp(name) ==
  IF \E p \in ReportPropsPassed : p[1] = name
  THEN (CHOOSE p \in ReportPropsPassed : p[1] = name)[2]
  ELSE UndefStr

\* The views whose back control is bound to the prop that carries reset:
\* Plans, FreeTrial and About read onBack (Assessment.jsx lines 261-384,
\* About.jsx lines 4-160).
BackViews == {"plans", "trial", "about"}

\* Everything outside App and Report stays as it is.
engineVars == << variant, profile, updates, pc, maturity, gaps, baseRisks,
                 executiveSummary, aiRecommendations, complianceRoadmap,
                 quantifiedRisks, calls, report >>

\* const startAssessment = () => setView('assessment'), bound to onStart
\* of Home and of Plans.
startAssessment ==
  /\ view \in {"home", "plans"}
  /\ view' = "assessment"
  /\ pressed' = "Start Assessment"
  /\ UNCHANGED << appProfile, loading, data, engineVars >>

\* const startTrial = () => setView('trial'), bound to onTrial of Plans.
startTrial ==
  /\ view = "plans"
  /\ view' = "trial"
  /\ pressed' = "Start Trial"
  /\ UNCHANGED << appProfile, loading, data, engineVars >>

\* const showPlans = () => setView('plans'), bound to onPlans of Home.
showPlans ==
  /\ view = "home"
  /\ view' = "plans"
  /\ pressed' = "Plans"
  /\ UNCHANGED << appProfile, loading, data, engineVars >>

\* const showAbout = () => setView('about'), bound to onAbout of Home.
showAbout ==
  /\ view = "home"
  /\ view' = "about"
  /\ pressed' = "Methodology"
  /\ UNCHANGED << appProfile, loading, data, engineVars >>

\* const completeAssessment = (data) => { setProfile(data); setView('report') },
\* called by Assessment with formData (Assessment.jsx line 84).  Report
\* mounts with loading true and data null.
completeAssessment ==
  /\ view = "assessment"
  /\ appProfile' = profile
  /\ view' = "report"
  /\ loading' = TRUE
  /\ data' = null
  /\ pressed' = "Generate Report"
  /\ UNCHANGED engineVars

\* const reset = () => setView('home'), reached through the back control
\* of Plans, FreeTrial and About.
reset ==
  /\ view \in BackViews
  /\ view' = "home"
  /\ pressed' = "Back to Home"
  /\ UNCHANGED << appProfile, loading, data, engineVars >>

\* Report.jsx lines 120-138, loadReport: generateReport(profile) runs while
\* the spinner is shown.
loadReportRuns ==
  /\ view = "report" /\ loading
  /\ \/ generateReport
     \/ \E reply \in Replies.summary : awaitExecutiveSummary(reply)
     \/ \E reply \in Replies.recommendations : awaitRecommendations(reply)
     \/ \E reply \in Replies.roadmap : awaitComplianceRoadmap(reply)
     \/ \E reply \in Replies.quantification : awaitQuantifyRisks(reply)

\* Report.jsx lines 131-137: setData(reportData); setLoading(false) when
\* generateReport resolves, setLoading(false) alone in the catch.
loadReportSettles ==
  /\ view = "report" /\ loading
  /\ pc \in {"resolved", "rejected"}
  /\ loading' = FALSE
  /\ data' = IF pc = "resolved" THEN report ELSE null
  /\ UNCHANGED << view, appProfile, pressed, engineVars >>

\* Report.jsx lines 140-141 and 177: the 'Start New Assessment' button is
\* rendered once loading is false and data is set; its onClick is the
\* onReset prop, and React attaches no handler for undefined.
clickStartNewAssessment ==
  /\ view = "report" /\ ~loading /\ data # null
  /\ pressed' = "Start New Assessment"
  /\ view' = IF ReportProp("onReset") = "reset" THEN "home" ELSE view
  /\ UNCHANGED << appProfile, loading, data, engineVars >>

\* App as first rendered: the home view, no profile; the form holds what
\* the user will submit.
InitApp ==
  /\ variant \in Variants
  /\ profile \in BaseProfiles
  /\ updates = 0
  /\ pc = "assessment"
  /\ maturity = NotRun
  /\ gaps = << >>
  /\ baseRisks = [status |-> "none", pool |-> << >>, risks |-> << >>]
  /\ executiveSummary = ""
  /\ aiRecommendations = << >>
  /\ complianceRoadmap = ""
  /\ quantifiedRisks = JsArray(<< >>)
  /\ calls = [c \in Capabilities |-> NotCalled]
  /\ report = NotRun
  /\ view = "home"
  /\ appProfile = null
  /\ loading = TRUE
  /\ data = null
  /\ pressed = "none"

NextApp ==
  \/ startAssessment
  \/ startTrial
  \/ showPlans
  \/ showAbout
  \/ completeAssessment
  \/ reset
  \/ loadReportRuns
  \/ loadReportSettles
  \/ clickStartNewAssessment

SpecApp == InitApp /\ [][NextApp]_vars

\* ------------------------------------------------------------ properties
Scored == maturity.status = "returned"

RisksReturned == baseRisks.status = "returned"

Abs(x) == IF x < 0 THEN 0 - x ELSE x

SumWeights(w) ==
  w["governance"] + w["risk"] + w["compliance"]
  + w["technical"] + w["application"] + w["operational"]

\* The names of the records of a list, and where a name sits in the pool.
NamesOf(list) == {list[i].risk : i \in 1..Len(list)}

PoolIndex(name) ==
  CHOOSE j \in 1..Len(baseRisks.pool) : baseRisks.pool[j].risk = name

HasRecord(list, name, l, c, sc) ==
  \E i \in 1..Len(list) :
    /\ list[i].risk = name
    /\ list[i].likelihoodScore = l
    /\ list[i].consequenceScore = c
    /\ list[i].score = sc

\* C1: whenever calculateMaturityScore returns, the six dimension scores and
\* overall are integers between 0 and 100.
C1_ScoresInRange ==
  Scored =>
    /\ \A d \in Dimensions : maturity[d] \in 0..100
    /\ maturity.overall \in 0..100

\* C1 witness: a scored profile whose Application rules add up to more than
\* 100 (mandatory MFA, SSO, encryption, code review), so the clamp acted.
C1_Witness ==
  /\ Scored
  /\ profile.mfa = "mandatory" /\ profile.sso = "yes"
  /\ profile.encryption = "yes" /\ profile.codeReview = "yes"
  /\ maturity.application = 100

\* C2: the returned overall is within one point of the weighted sum of the
\* returned dimension scores under the selected table, less 5 for mfa 'none'
\* and less 5 for backupFrequency 'none' (all in thousandths of a point).
C2_OverallIsWeightedSum ==
  Scored =>
    LET w == INDUSTRY_WEIGHTS[maturity.key]
        weighted == maturity.governance * w.governance + maturity.risk * w.risk
                    + maturity.compliance * w.compliance
                    + maturity.technical * w.technical
                    + maturity.application * w.application
                    + maturity.operational * w.operational
        penalty == (IF profile.mfa = "none" THEN 5000 ELSE 0)
                   + (IF profile.backupFrequency = "none" THEN 5000 ELSE 0)
    IN Abs(1000 * maturity.overall - (weighted - penalty)) <= 1000

\* C2 witness: both global penalties applied and the weighted sum was not a
\* whole number of points, so rounding moved it.
C2_Witness ==
  /\ Scored
  /\ profile.mfa = "none" /\ profile.backupFrequency = "none"
  /\ 1000 * maturity.overall
       # WeightedOverall1000(profile, INDUSTRY_WEIGHTS[maturity.key])

\* C3 as stated: the six weights used for a score sum to 1 within 0.001.
C3_WeightsSumToOneWithin001 ==
  Scored => Abs(SumWeights(maturity.weights) - 1000) <= 1

\* C3 amended: the weights of fintech, healthcare and saas sum to exactly 1;
\* those of the default entry sum to 0.996, so every entry is within 0.004.
C3_WeightsSumAmended ==
  Scored =>
    /\ maturity.key # "default" => SumWeights(maturity.weights) = 1000
    /\ maturity.key = "default" => SumWeights(maturity.weights) = 996
    /\ Abs(SumWeights(maturity.weights) - 1000) <= 4

\* C3 witness: a score computed under the default entry.
C3_Witness == Scored /\ maturity.key = "default"

\* C4: once generateReport has scored a profile whose industry is absent or
\* is not a key of the weight table, calculateMaturityScore has returned,
\* with weight 0.166 on every dimension and the overall of the same profile
\* under industry 'default'.
C4_UnknownIndustryFallsBack ==
  (pc # "assessment" /\ profile.industry \notin DOMAIN INDUSTRY_WEIGHTS) =>
    /\ Scored
    /\ \A d \in Dimensions : maturity.weights[d] = 166
    /\ maturity.overall
         = calculateMaturityScore([profile EXCEPT !.industry = "default"]).overall

\* C5: every returned risk record has score = likelihoodScore *
\* consequenceScore with the ordinals in 1..5 and 1..6, and is, but for its
\* id, the record that was pushed to the pool.
C5_ScoreIsProduct ==
  RisksReturned =>
    \A i \in 1..Len(baseRisks.risks) :
      LET r == baseRisks.risks[i]
      IN /\ r.likelihoodScore \in 1..5
         /\ r.consequenceScore \in 1..6
         /\ r.score = r.likelihoodScore * r.consequenceScore
         /\ \E j \in 1..Len(baseRisks.pool) :
              LET q == baseRisks.pool[j]
              IN /\ q.risk = r.risk
                 /\ q.score = r.score
                 /\ q.likelihoodScore = r.likelihoodScore
                 /\ q.consequenceScore = r.consequenceScore
                 /\ q.level = r.level

\* C5 witness: a returned list that was sorted and cut, holding the record
\* with both ordinals at their maximum (5 x 6 = 30).
C5_Witness ==
  /\ RisksReturned
  /\ Len(baseRisks.pool) > Len(baseRisks.risks)
  /\ \E i \in 1..Len(baseRisks.risks) :
       /\ baseRisks.risks[i].likelihoodScore = 5
       /\ baseRisks.risks[i].consequenceScore = 6

\* C6: the returned list has min(N, pool size) records, the i-th has id i,
\* scores never increase along the list, and no pool record left out scores
\* strictly more than a record of the list.
C6_TruncationInvariant ==
  RisksReturned =>
    LET risks == baseRisks.risks
        pool == baseRisks.pool
        n == TopN(variant)
    IN /\ Len(risks) = (IF Len(pool) < n THEN Len(pool) ELSE n)
       /\ \A i \in 1..Len(risks) : risks[i].id = i
       /\ \A i \in 1..(Len(risks) - 1) : risks[i].score >= risks[i + 1].score
       /\ \A j \in 1..Len(pool) :
            pool[j].risk \notin NamesOf(risks) =>
              \A i \in 1..Len(risks) : pool[j].score <= risks[i].score

\* C6 witness: the older build cut a pool of more than 12 records to 12.
C6_Witness ==
  /\ RisksReturned /\ variant = "legacy"
  /\ Len(baseRisks.pool) > 12 /\ Len(baseRisks.risks) = 12

\* The rules whose record a profile must find in the pool.
ExpectedCurrent(p) ==
  {"Phishing / Social Engineering", "Insider Threat", "Unpatched Vulnerabilities",
   "Shadow IT", "DDoS Attack", "Regulatory Fines"}
  \cup (IF p.remote = "yes" THEN {"Remote Endpoint Compromise"} ELSE {})
  \cup (IF p.hosting = "cloud" THEN {"Cloud Misconfiguration / Data Leak"} ELSE {})
  \cup (IF p.backupFrequency = "none" THEN {"Ransomware Data Loss"}
        ELSE {"Ransomware Operational Impact"})
  \cup (IF p.mfa = "none" THEN {"Credential Reuse / Brute Force"} ELSE {})
  \cup (IF p.encryption = "no" THEN {"Data Theft in Transit/Rest"} ELSE {})
  \cup (IF p.incidentResponsePlan = "no" THEN {"Chaotic Breach Response"} ELSE {})
  \cup (IF p.vendorRiskProgram = "no" THEN {"Third-Party Vendor Breach"} ELSE {})

ExpectedLegacy(p) ==
  {"Insider Threat / Privilege Abuse", "Social Engineering & Phishing Attacks",
   "Exploitation of Unpatched Vulnerabilities", "Unsanctioned Shadow IT Usage",
   "Web Application Attacks (SQLi, XSS)", "Denial of Service (DDoS) Attack",
   "Mobile Device Compromise (BYOD)", "Insecure API Endpoints",
   "Data Integrity Corruption", "Physical Security Breach",
   "Reputational Damage from Incident", "Theft of Intellectual Property",
   "Business Interruption / Failure", "Insecure Default Configurations",
   "Network Eavesdropping / MitM", "Inadequate Employee Offboarding",
   "Data Leakage via AI/LLM Tools", "Brand Impersonation on Social Media"}
  \cup (IF p.remote = "yes" THEN {"Remote Endpoint Compromise"} ELSE {})
  \cup (IF p.hosting = "cloud" THEN {"Cloud Misconfiguration"} ELSE {})
  \cup (IF p.vendors = "yes" \/ (p.criticalVendorCount # UndefNum /\ p.criticalVendorCount > 0)
        THEN {"Supply Chain / Third-Party Breach"} ELSE {})
  \cup (IF p.dataTypes \cap {"pii", "financial", "health"} # {}
        THEN {"Data Breach / Leakage (Sensitive Data)"} ELSE {})
  \cup (IF p.backupFrequency = "none" THEN {"Ransomware Attack with Data Loss"}
        ELSE {"Ransomware Attack (Recoverable)"})
  \cup (IF p.mfa # "mandatory" THEN {"Credential Stuffing / Brute Force"} ELSE {})
  \cup (IF p.logging # "advanced" THEN {"Failure to Detect Intrusions"} ELSE {})
  \cup (IF p.compliance = "none" /\ ("pii" \in p.dataTypes \/ p.industry = "healthcare")
        THEN {"Regulatory Non-Compliance Fines"} ELSE {})

\* C7: the pool handed to the sort holds exactly one record of every
\* universal rule and of every conditional rule whose guard is true of the
\* profile, and no record of a rule whose guard is false.
C7_PoolMembership ==
  RisksReturned =>
    LET pool == baseRisks.pool
        expected == IF variant = "current" THEN ExpectedCurrent(profile)
                    ELSE ExpectedLegacy(profile)
    IN /\ NamesOf(pool) = expected
       /\ Len(pool) = Cardinality(expected)

\* C7 witness: a pool in which some conditional rule fired and another did
\* not (the credential rule is absent, the cloud rule present).
C7_Witness ==
  /\ RisksReturned /\ variant = "current"
  /\ "Cloud Misconfiguration / Data Leak" \in NamesOf(baseRisks.pool)
  /\ "Credential Reuse / Brute Force" \notin NamesOf(baseRisks.pool)

\* C8: the order of the returned list is fixed by the profile alone: a
\* record precedes another only if its score is higher, or the scores are
\* equal and its rule was appended to the pool earlier.
C8_StableOrder ==
  RisksReturned =>
    \A i \in 1..Len(baseRisks.risks) : \A j \in 1..Len(baseRisks.risks) :
      i < j =>
        \/ baseRisks.risks[i].score > baseRisks.risks[j].score
        \/ /\ baseRisks.risks[i].score = baseRisks.risks[j].score
           /\ PoolIndex(baseRisks.risks[i].risk) < PoolIndex(baseRisks.risks[j].risk)

\* C8 witness: a returned list with two neighbours of equal score.
C8_Witness ==
  /\ RisksReturned
  /\ \E i \in 1..(Len(baseRisks.risks) - 1) :
       baseRisks.risks[i].score = baseRisks.risks[i + 1].score

ScenarioB ==
  /\ profile.mfa = "none" /\ profile.backupFrequency = "none"
  /\ profile.remote = "yes" /\ profile.hosting = "cloud"

\* C9: for a profile with mfa 'none', backupFrequency 'none', remote 'yes'
\* and hosting 'cloud', the returned list holds the ransomware data-loss
\* record (5, 6, 30) and the credential brute-force record (5, 4, 20).
C9_ScenarioB ==
  (RisksReturned /\ ScenarioB) =>
    /\ HasRecord(baseRisks.risks,
                 IF variant = "current" THEN "Ransomware Data Loss"
                 ELSE "Ransomware Attack with Data Loss", 5, 6, 30)
    /\ HasRecord(baseRisks.risks,
                 IF variant = "current" THEN "Credential Reuse / Brute Force"
                 ELSE "Credential Stuffing / Brute Force", 5, 4, 20)

\* C9 witness: scenario B under the older build, whose pool is cut to 12.
C9_Witness ==
  /\ RisksReturned /\ ScenarioB /\ variant = "legacy"
  /\ Len(baseRisks.pool) > Len(baseRisks.risks)

MfaGap ==
  \E i \in 1..Len(gaps) :
    gaps[i].description = "Multi-Factor Authentication (MFA) is not enabled."

ScenarioA ==
  /\ profile.mfa = "mandatory" /\ profile.industry = "saas"
  /\ profile.backupFrequency = "daily" /\ profile.sso = "yes"
  /\ profile.encryption = "yes" /\ profile.codeReview = "yes"

\* C10: under scenario A the Application score is at least 90 and no MFA gap
\* is emitted; in general the MFA gap is emitted only when mfa is 'none'.
C10_ScenarioA ==
  Scored =>
    /\ ScenarioA => (maturity.application >= 90 /\ ~MfaGap)
    /\ MfaGap => profile.mfa = "none"

\* C10 witness: scenario A was scored and gaps were listed.
C10_Witness == Scored /\ ScenarioA /\ pc = "ai_summary"

\* ------------------------------------------------- generateReport, awaited
Failed(c) == calls[c].failure \notin {"none", "pending"}

Succeeded(c) == calls[c].failure = "none"

AllFailed == \A c \in Capabilities : Failed(c)

Resolved == pc = "resolved"

\* C11: when all four AI capabilities have failed, generateReport has
\* resolved, and the report has a non-empty executiveSummary, a
\* recommendations list (empty, or the fallback list), a non-empty
\* complianceRoadmap and risks equal to generateBaseRisks(profile).
C11_AllFailStillResolves ==
  AllFailed =>
    /\ Resolved
    /\ report.executiveSummary # ""
    /\ report.recommendations \in
         {<< >>, generateFallbackRecommendations(variant, gaps).value}
    /\ report.complianceRoadmap # ""
    /\ report.risks = generateBaseRisks(variant, profile).risks

C11_Witness ==
  /\ AllFailed /\ Resolved
  /\ calls.summary.failure = Timeout
  /\ calls.recommendations.failure = "unparseable"
  /\ Len(gaps) > 0 /\ Len(report.risks) > 0

\* C12: whatever combination of the four capabilities fails, each one is
\* invoked in its turn and generateReport resolves: once the first
\* capability has been invoked the execution is never rejected, a failed
\* capability is followed by the next one, and the resolved report comes
\* after all four were invoked.
Position ==
  [ ai_recommendations |-> {"summary"},
    ai_roadmap |-> {"summary", "recommendations"},
    ai_quantify |-> {"summary", "recommendations", "roadmap"},
    resolved |-> Capabilities ]

C12_PartialFailureTolerated ==
  /\ pc = "rejected" => \A c \in Capabilities : calls[c].invoked = 0
  /\ pc \in DOMAIN Position =>
       \A c \in Capabilities :
         calls[c].invoked = (IF c \in Position[pc] THEN 1 ELSE 0)
  /\ pc \in {"assessment", "ai_summary"} =>
       \A c \in Capabilities : calls[c].invoked = 0

C12_Witness ==
  /\ Resolved
  /\ Failed("summary") /\ Succeeded("recommendations")
  /\ Failed("roadmap") /\ Succeeded("quantification")
  /\ calls.summary.issued = 1 /\ calls.roadmap.issued = 1

\* C13: when the recommendations generation fails (transport error, timeout
\* or an answer that cannot be parsed), report.recommendations is the
\* output of generateFallbackRecommendations: one entry per gap for the
\* first 10 gaps, ids 1..k, priority = the gap's severity.
C13_FailedRecommendationsUseFallback ==
  (Resolved /\ calls.recommendations.failure \in Failures \cup {"unparseable"})
    => /\ report.recommendations = generateFallbackRecommendations(variant, gaps).value
       /\ Len(report.recommendations) = (IF Len(gaps) < 10 THEN Len(gaps) ELSE 10)
       /\ \A i \in 1..Len(report.recommendations) :
            /\ report.recommendations[i].id = i
            /\ report.recommendations[i].priority = gaps[i].severity

\* C14: when risk quantification fails or answers with something that is
\* not a list (transport error, timeout, unparseable text, parseable JSON of
\* another shape), report.quantifiedRisks is one zero-valued record per
\* ranked risk, in rank order, carrying the risk's name.
C14_FailedQuantificationUsesZeroRecords ==
  (Resolved /\ Failed("quantification"))
    => /\ report.quantifiedRisks.type = "array"
       /\ report.quantifiedRisks.items = zeroQuantification(report.risks)

\* C15: within one execution of generateReport every AI capability is
\* invoked at most once and sends at most one generation request: a failed
\* capability is not retried and a fallback generator asks the model
\* nothing.
C15_InvokedAtMostOnce ==
  \A c \in Capabilities :
    /\ calls[c].invoked <= 1
    /\ calls[c].issued <= calls[c].invoked

C15_Witness ==
  /\ Resolved
  /\ calls.summary.failure = NetworkError /\ calls.summary.issued = 1
  /\ executiveSummary = generateFallbackSummary(variant, profile, maturity, gaps).value
  /\ calls.roadmap.failure = Timeout /\ calls.roadmap.issued = 1
  /\ \A c \in Capabilities : calls[c].invoked = 1

\* C16: the maturity, gaps and risks of a resolved report are the values
\* the scorer, the gap rules and the risk builder give for the profile,
\* whichever capabilities failed and whatever the others answered.
C16_DeterministicSections ==
  Resolved =>
    LET m == calculateMaturityScore(profile)
    IN /\ report.maturity = m
       /\ report.gaps = identifyGaps(profile, m)
       /\ report.risks = generateBaseRisks(variant, profile).risks

C16_Witness ==
  /\ Resolved
  /\ Succeeded("summary") /\ report.executiveSummary = "Critical exposure."
  /\ Failed("recommendations") /\ Succeeded("roadmap")
  /\ calls.quantification.failure = "malformed"
  /\ Len(report.gaps) > 0 /\ Len(report.risks) > 0

\* C17: generateBaseRisks returns a ranked list, without raising, for every
\* profile, the ones whose list fields (dataTypes, complianceFrameworks)
\* are absent included.
C17_BaseRisksNeverRaise == baseRisks.status # "raised"

\* C18: every fallback that runs inside generateReport returns its value:
\* a capability whose catch branch was entered leaves the fallback's value
\* in its variable, also when dataTypes is absent, and no execution is
\* rejected after a capability was invoked.
C18_FallbacksReturn ==
  /\ Failed("summary") =>
       LET f == generateFallbackSummary(variant, profile, maturity, gaps)
       IN f.status = "returned" /\ executiveSummary = f.value
  /\ calls.recommendations.failure = "malformed" =>
       LET f == generateFallbackRecommendations(variant, gaps)
       IN f.status = "returned" /\ aiRecommendations = f.value
  /\ Failed("roadmap") =>
       LET f == generateFallbackComplianceRoadmap(variant, profile)
       IN f.status = "returned" /\ complianceRoadmap = f.value
  /\ calls.quantification.failure = "prompt" =>
       quantifiedRisks = JsArray(zeroQuantification(baseRisks.risks))
  /\ (\E c \in Capabilities : calls[c].invoked > 0) => pc # "rejected"

C18_Witness ==
  /\ Resolved /\ DataTypesAbsent(profile)
  /\ calls.summary.failure = "prompt" /\ calls.roadmap.failure = "prompt"
  /\ calls.recommendations.failure = "malformed" /\ Len(aiRecommendations) > 0
  /\ calls.quantification.failure = "prompt"
  /\ Len(quantifiedRisks.items) = Len(baseRisks.risks)

\* C19: a profile in which a rule's field is absent is scored, gapped and
\* risk-ranked exactly as the same profile with the rule's worst value:
\* backupFrequency absent as 'none', mfa absent as 'none',
\* vulnerabilityScanning absent as 'never'.
WorstCase ==
  [ backupFrequency |-> "none", mfa |-> "none", vulnerabilityScanning |-> "never" ]

C19_AbsentLikeWorstCase ==
  (Scored /\ RisksReturned) =>
    \A f \in DOMAIN WorstCase :
      profile[f] = UndefStr =>
        LET worst == [profile EXCEPT ![f] = WorstCase[f]]
            m == calculateMaturityScore(worst)
        IN /\ maturity = m
           /\ gaps = identifyGaps(worst, m)
           /\ baseRisks.risks = generateBaseRisks(variant, worst).risks

\* C20: whatever prompt-only fields the profile lacks (dataTypes,
\* securityBudget, regulatoryRequirements, existingCertifications,
\* employees), every capability that is invoked builds its prompt and
\* issues its generation call.
C20_PromptsBuiltWhenFieldsAbsent ==
  \A c \in Capabilities :
    calls[c].invoked = 1 => (calls[c].issued = 1 /\ calls[c].failure # "prompt")

\* ------------------------------------------------------- later properties
\* The nine gap rules in the order of their declaration: category,
\* severity and the guard as the rule states it.
RuleOrder ==
  << [category |-> "Governance", severity |-> "High",
      fires |-> maturity.governance < 60],
     [category |-> "Risk", severity |-> "Critical",
      fires |-> profile.backupFrequency = "none"],
     [category |-> "Risk", severity |-> "Medium",
      fires |-> profile.bcpDocumented # "yes" /\ maturity.risk < 50],
     [category |-> "Compliance", severity |-> "High",
      fires |-> maturity.compliance < 50 /\ profile.industry \in {"fintech", "healthcare"}],
     [category |-> "Technical", severity |-> "High",
      fires |-> profile.vulnerabilityScanning = "never"],
     [category |-> "Application", severity |-> "Critical",
      fires |-> profile.mfa = "none"],
     [category |-> "Application", severity |-> "High",
      fires |-> profile.encryption = "no"],
     [category |-> "Operational", severity |-> "High",
      fires |-> profile.incidentResponsePlan # "yes"],
     [category |-> "Operational", severity |-> "Medium",
      fires |-> profile.securityTraining # "regular"] >>

\* The rules that fire, by ascending rule number.
FiringRules == SelectSeq([k \in 1..9 |-> k], LAMBDA k : RuleOrder[k].fires)

\* C21: identifyGaps lists one gap per rule whose guard holds and none for
\* the others, in the order the rules are declared, whatever the severities.
C21_GapsInDeclarationOrder ==
  Scored =>
    /\ Len(gaps) = Len(FiringRules)
    /\ \A i \in 1..Len(gaps) :
         /\ gaps[i].category = RuleOrder[FiringRules[i]].category
         /\ gaps[i].severity = RuleOrder[FiringRules[i]].severity
    /\ \A i \in 1..Len(gaps) : \A j \in 1..Len(gaps) :
         (i # j) => gaps[i].description # gaps[j].description

C21_Witness ==
  /\ Scored
  /\ \E i \in 1..Len(gaps) : \E j \in 1..Len(gaps) :
       i < j /\ gaps[i].severity \in {"High", "Medium"} /\ gaps[j].severity = "Critical"
  /\ Len(gaps) >= 5

\* The answers of a capability that are not failures of the call.
Texts(c) == Replies[c] \ Failures

\* The values each awaited step can leave behind, computed from the profile,
\* maturity, gaps and ranked risks and from the step's own outcome only.
SummaryFrom(outcome) ==
  IF outcome = "none" THEN Texts("summary")
  ELSE {generateFallbackSummary(variant, profile, maturity, gaps).value}

RecommendationsFrom(outcome) ==
  IF outcome = "none" THEN {JSONparse(RecommendationsJson).value.items}
  ELSE IF outcome = "malformed"
  THEN {generateFallbackRecommendations(variant, gaps).value}
  ELSE {<< >>}

RoadmapFrom(outcome) ==
  IF outcome = "none" THEN Texts("roadmap")
  ELSE {generateFallbackComplianceRoadmap(variant, profile).value}

QuantifiedFrom(outcome) ==
  IF outcome = "none" THEN {JSONparse(QuantifiedJson).value}
  ELSE IF outcome = "malformed" THEN {JSONparse(ObjectJson).value}
  ELSE IF outcome = "prompt" THEN {JsArray(zeroQuantification(baseRisks.risks))}
  ELSE {JsArray(<< >>)}

\* C22: maturity, gaps and the ranked risks are computed from the profile
\* before the first capability is invoked, and what each capability (or its
\* fallback) leaves behind is a function of those values and of its own
\* outcome: no AI result enters another AI call.
C22_InputsComputedBeforeAI ==
  (pc \in {"ai_summary", "resolved"} \cup DOMAIN Position) =>
    /\ maturity = calculateMaturityScore(profile) /\ Scored
    /\ gaps = identifyGaps(profile, maturity)
    /\ baseRisks = generateBaseRisks(variant, profile) /\ RisksReturned
    /\ calls.summary.invoked = 1 =>
         executiveSummary \in SummaryFrom(calls.summary.failure)
    /\ calls.recommendations.invoked = 1 =>
         aiRecommendations \in RecommendationsFrom(calls.recommendations.failure)
    /\ calls.roadmap.invoked = 1 =>
         complianceRoadmap \in RoadmapFrom(calls.roadmap.failure)
    /\ calls.quantification.invoked = 1 =>
         quantifiedRisks \in QuantifiedFrom(calls.quantification.failure)

C22_Witness ==
  /\ Resolved /\ Len(gaps) > 0
  /\ Succeeded("summary") /\ Succeeded("recommendations")
  /\ Failed("roadmap")
  /\ calls.quantification.failure = Timeout
  /\ Len(aiRecommendations) < Len(baseRisks.risks)

\* The breakpoint table of the claim.
LevelOf(score) ==
  IF score >= 25 THEN "Extreme"
  ELSE IF score >= 15 THEN "High"
  ELSE IF score >= 6 THEN "Medium" ELSE "Low"

\* C23: every record the current engine returns has the level its score
\* gives under the breakpoints 25 / 15 / 6, and the risk matrix colours the
\* record's cell (likelihood, consequence) as that level.
C23_LevelFromBreakpoints ==
  (variant = "current" /\ RisksReturned) =>
    \A i \in 1..Len(baseRisks.risks) :
      LET r == baseRisks.risks[i]
      IN /\ r.level = LevelOf(r.score)
         /\ getCellColor(r.likelihoodScore, r.consequenceScore) = badgeColor(r.level)

C23_Witness ==
  /\ variant = "current" /\ RisksReturned
  /\ {baseRisks.risks[i].level : i \in 1..Len(baseRisks.risks)}
       = {"Extreme", "High", "Medium"}
  /\ \E i \in 1..Len(baseRisks.risks) :
       baseRisks.risks[i].score = 20 /\ baseRisks.risks[i].level = "High"

\* The weighted sum of the six reported dimension scores, thousandths.
WeightedSumOf(m) ==
  m.governance * m.weights.governance + m.risk * m.weights.risk
  + m.compliance * m.weights.compliance + m.technical * m.weights.technical
  + m.application * m.weights.application + m.operational * m.weights.operational

\* 5 points for mfa = 'none' plus 5 points for backupFrequency = 'none'.
FivePointDeductions(p) ==
  5000 * ((IF p.mfa = "none" THEN 1 ELSE 0)
          + (IF p.backupFrequency = "none" THEN 1 ELSE 0))

\* C24: under each of the four industry tables overall is the weighted sum
\* less exactly 5 points per global penalty, clamped and rounded, and the
\* six dimension scores are the same under every table: the penalties and
\* bonuses entries of the tables change nothing.
C24_GlobalDeductionSameEverywhere ==
  Scored =>
    \A k \in DOMAIN INDUSTRY_WEIGHTS :
      LET m == calculateMaturityScore([profile EXCEPT !.industry = k])
      IN /\ m.overall = MathRound1000(clamp1000(WeightedSumOf(m)
                                                 - FivePointDeductions(profile)))
         /\ \A d \in Dimensions : m[d] = maturity[d]

C24_Witness ==
  /\ Scored /\ maturity.key = "fintech"
  /\ profile.mfa = "none" /\ profile.backupFrequency = "none"
  /\ << "no_mfa", 25 >> \in INDUSTRY_PENALTIES[maturity.key]
  /\ 1000 * maturity.overall > WeightedSumOf(maturity) - 10500

\* C25: the Compliance score is at least 50 for every profile, so the
\* Compliance gap rule never fires on the scores calculateMaturityScore
\* computed: no gap has the category 'Compliance'.
C25_ComplianceNeverBelowBaseline ==
  Scored =>
    /\ maturity.compliance >= 50
    /\ calculateComplianceScore(profile) >= 50
    /\ \A i \in 1..Len(gaps) : gaps[i].category # "Compliance"

C25_Witness ==
  /\ Scored /\ profile.industry \in {"fintech", "healthcare"}
  /\ maturity.compliance = 50
  /\ Len(gaps) > 0

\* C26: under each of the four weight tables the weighted sum less the
\* global penalties lies strictly between 0 and 100, so the clamp on overall
\* changes nothing; overall is never 100 and Operational is at most 95.
C26_OverallClampNeverActive ==
  Scored =>
    \A k \in DOMAIN INDUSTRY_WEIGHTS :
      LET m == calculateMaturityScore([profile EXCEPT !.industry = k])
          raw == WeightedSumOf(m) - FivePointDeductions(profile)
      IN /\ 0 < raw /\ raw < 100000
         /\ m.overall = MathRound1000(raw)
         /\ m.overall < 100
         /\ m.operational <= 95

C26_Witness ==
  /\ Scored
  /\ maturity.operational = 95 /\ maturity.governance = 100
  /\ maturity.risk = 100 /\ maturity.compliance = 100
  /\ maturity.technical = 100 /\ maturity.application = 100
  /\ maturity.overall = 99

\* The options the form offers for a control, weakest first.
FrequencyOrder == << "never", "annual", "quarterly", "monthly", "weekly", "daily" >>

ControlOrder ==
  [ mfa |-> << "none", "optional", "mandatory" >>,
    backupFrequency |-> << "none", "weekly", "daily", "real_time" >>,
    policiesDocumented |-> << "none", "partial", "complete" >>,
    vulnerabilityScanning |-> << "never", "ad_hoc", "regular" >>,
    riskAssessmentFreq |-> FrequencyOrder,
    managementReview |-> FrequencyOrder ]

\* No dimension score and not the overall score of b is below that of a.
NotLower(a, b) ==
  /\ a.overall <= b.overall
  /\ \A d \in Dimensions : a[d] <= b[d]

\* C27: replacing one control's option by a stronger one the form offers
\* lowers no dimension score and not the overall score.
C27_StrongerControlNeverLowers ==
  Scored =>
    \A c \in DOMAIN ControlOrder :
      \A i \in 1..Len(ControlOrder[c]) : \A j \in 1..Len(ControlOrder[c]) :
        (profile[c] = ControlOrder[c][i] /\ i < j) =>
          NotLower(maturity,
                   calculateMaturityScore([profile EXCEPT ![c] = ControlOrder[c][j]]))

\* The ransomware records of the two builds.
DataLossNames == {"Ransomware Data Loss", "Ransomware Attack with Data Loss"}

RecoverableNames ==
  {"Ransomware Operational Impact", "Ransomware Attack (Recoverable)"}

\* Positions of the returned list that hold a ransomware record.
RansomwareAt ==
  {i \in 1..Len(baseRisks.risks) :
     baseRisks.risks[i].risk \in DataLossNames \cup RecoverableNames}

\* C28: the returned list holds exactly one ransomware record: the
\* data-loss record, score 30 and id 1, when backupFrequency is 'none', and
\* the recoverable / operational-impact record, score 12, otherwise; the
\* top-12 cut of the older build never removes it.
C28_OneRansomwareRecord ==
  RisksReturned =>
    /\ Cardinality(RansomwareAt) = 1
    /\ \A i \in RansomwareAt :
         LET r == baseRisks.risks[i]
         IN IF profile.backupFrequency = "none"
            THEN r.risk \in DataLossNames /\ r.score = 30 /\ r.id = 1 /\ i = 1
            ELSE r.risk \in RecoverableNames /\ r.score = 12

C28_Witness ==
  /\ RisksReturned /\ variant = "legacy"
  /\ profile.backupFrequency # "none"
  /\ Len(baseRisks.pool) >= 24
  /\ \E i \in RansomwareAt : i >= 10



C29_SmallestCurrent == RisksReturned /\ variant = "current" /\ Len(baseRisks.pool) = 7
C29_LargestCurrent == RisksReturned /\ variant = "current" /\ Len(baseRisks.risks) = 13
C29_SmallestLegacy == RisksReturned /\ variant = "legacy" /\ Len(baseRisks.pool) = 19


\* C30: in the App view state machine, once the report is shown the user
\* can get back: activating the Report's 'Start New Assessment' control
\* invokes App.reset and sets view to 'home'.
C30_StartNewAssessmentGoesHome ==
  pressed = "Start New Assessment" => view = "home"

\* The report is on screen with its 'Start New Assessment' control.
C30_ReportShown == view = "report" /\ ~loading /\ data # null

\* Once the report view is entered it is never left.
C30_ReportViewIsFinal == [][view = "report" => view' = "report"]_vars

====
